---------------------------- MODULE Spec2Model ----------------------------
(***************************************************************************)
(* A model of the creative-analysis scripts:                               *)
(*   src/creative_pipeline.py  load_data, the three ranking lenses and the *)
(*                             main block (export + dashboard),            *)
(*   src/ai_analysis.py        the mock vision analysis and the tag        *)
(*                             correlation main block.                     *)
(* Both scripts communicate through the file ai_correlation_data.csv.      *)
(*                                                                         *)
(* Floating point values are modelled as exact extended rationals: a pair  *)
(* <<n, d>> with d > 0 in lowest terms, or <<0,0>> (NaN), <<1,0>> (+inf),  *)
(* <<-1,0>> (-inf).  Arithmetic follows numpy/pandas: division by zero     *)
(* gives inf or NaN and never raises, comparisons with NaN are false.      *)
(* IEEE rounding is not modelled.                                          *)
(***************************************************************************)
EXTENDS Integers, Sequences, FiniteSets, TLC

VARIABLES
    rawFile,         \* raw_creative_data.csv: [present, rows]
    chainedInplace,  \* does df[col].fillna(..., inplace=True) write through
    pc,              \* position of creative_pipeline.py's main block
    df,              \* load_data's result (df_clean)
    df_comp,         \* rank_composite_score: the filtered, scored frame
    roas_norm,       \* rank_composite_score: local, aligned with df_comp
    thruplay_norm,   \* rank_composite_score: local, aligned with df_comp
    top_20,          \* rank_composite_score: composite_top
    bottom_20,       \* rank_composite_score: composite_bottom
    df_with_scores,  \* rank_composite_score: third result; has_score tells
                     \* whether the Creative_Score column exists
    aiCsv,           \* ai_correlation_data.csv: [present, origin, cols, rows]
    dashboard,       \* dashboard.html: [present, rows] (rows of df_dash)
    pcA,             \* position of ai_analysis.py's main block
    df_final,        \* ai_analysis.py: rows with the tags attached
    hypotheses,      \* ai_analysis.py: the hypotheses list
    finalReport      \* final_ai_creative_report.csv written

vars == <<rawFile, chainedInplace, pc, df, df_comp, roas_norm, thruplay_norm,
          top_20, bottom_20,
          df_with_scores, aiCsv, dashboard, pcA, df_final, hypotheses,
          finalReport>>

pipeVars == <<pc, df, df_comp, roas_norm, thruplay_norm, top_20, bottom_20,
              df_with_scores, dashboard>>
corrVars == <<pcA, df_final, hypotheses, finalReport>>

----------------------------------------------------------------------------
(* Floating point values                                                   *)

NaN    == <<0, 0>>
PosInf == <<1, 0>>
NegInf == <<-1, 0>>

Abs(i) == IF i < 0 THEN -i ELSE i

RECURSIVE GCD(_, _)
GCD(a, b) == IF b = 0 THEN a ELSE GCD(b, a % b)

\* n/d in lowest terms with a positive denominator; n/0 is NaN or +-inf
Num(n, d) ==
    IF d = 0 THEN (IF n = 0 THEN NaN ELSE IF n > 0 THEN PosInf ELSE NegInf)
    ELSE LET g == GCD(Abs(n), Abs(d))
             s == IF d < 0 THEN -1 ELSE 1
         IN  <<(s * n) \div g, (s * d) \div g>>

F(i) == <<i, 1>>

IsNaN(x)    == x = NaN
IsFinite(x) == x[2] # 0
Sign(x)     == IF x[1] > 0 THEN 1 ELSE IF x[1] < 0 THEN -1 ELSE 0

FAdd(x, y) ==
    IF IsNaN(x) \/ IsNaN(y) THEN NaN
    ELSE IF IsFinite(x) /\ IsFinite(y)
         THEN Num(x[1] * y[2] + y[1] * x[2], x[2] * y[2])
    ELSE IF IsFinite(x) THEN y
    ELSE IF IsFinite(y) THEN x
    ELSE IF x = y THEN x ELSE NaN

FNeg(x) == <<-x[1], x[2]>>

FSub(x, y) == FAdd(x, FNeg(y))

FMul(x, y) ==
    IF IsNaN(x) \/ IsNaN(y) THEN NaN
    ELSE IF IsFinite(x) /\ IsFinite(y) THEN Num(x[1] * y[1], x[2] * y[2])
    ELSE Num(Sign(x) * Sign(y), 0)

\* numpy division: x/0 is +-inf, 0/0 and inf/inf are NaN, nothing raises
FDiv(x, y) ==
    IF IsNaN(x) \/ IsNaN(y) THEN NaN
    ELSE IF IsFinite(x) /\ IsFinite(y) THEN Num(x[1] * y[2], x[2] * y[1])
    ELSE IF IsFinite(x) THEN F(0)
    ELSE IF IsFinite(y) THEN Num(Sign(x) * (IF Sign(y) < 0 THEN -1 ELSE 1), 0)
    ELSE NaN

FLt(x, y) ==
    /\ ~IsNaN(x)
    /\ ~IsNaN(y)
    /\ IF ~IsFinite(x) THEN x = NegInf /\ y # NegInf
       ELSE IF ~IsFinite(y) THEN y = PosInf
       ELSE x[1] * y[2] < y[1] * x[2]

FGt(x, y) == FLt(y, x)
FLe(x, y) == ~IsNaN(x) /\ ~IsNaN(y) /\ (x = y \/ FLt(x, y))
FGe(x, y) == FLe(y, x)

\* Series.max(): NaN entries are skipped; NaN when nothing is left
SeriesMax(s) ==
    LET vals == {s[i] : i \in 1..Len(s)} \ {NaN}
    IN  IF vals = {} THEN NaN
        ELSE CHOOSE m \in vals : \A v \in vals : FLe(v, m)

\* round(2) on a finite value, half to even as numpy rounds
Round2(x) ==
    IF ~IsFinite(x) THEN x
    ELSE LET n  == x[1] * 100
             d  == x[2]
             q  == n \div d
             r2 == 2 * (n - q * d)
             k  == IF r2 > d \/ (r2 = d /\ q % 2 = 1) THEN q + 1 ELSE q
         IN  Num(k, 100)

Column(frame, c) == [i \in 1..Len(frame) |-> frame[i][c]]

----------------------------------------------------------------------------
(* creative_pipeline.py: configuration                                     *)

MIN_SPEND             == 50
MIN_IMPRESSIONS       == 1000
MIN_SPEND_FOR_RANKING == 50
MAX_FREQUENCY         == 5
HEAD_N                == 20

\* A blank cell of the csv, which pandas reads as NaN.  Numeric cells are
\* non-negative integers in this model.
Blank  == -1
NoName == ""

----------------------------------------------------------------------------
(* creative_pipeline.py: load_data                                         *)

\* pd.to_numeric(..., errors='coerce') on a cell
to_numeric(c) == IF c = Blank THEN NaN ELSE F(c)

\* np.where(Outbound_Clicks > 0, Conversions / Outbound_Clicks, 0), then
\* replace(+-inf -> NaN) and fillna(0), both called in place on the column
\* selection df['CVR_Decimal']: they change df only where such a chained
\* in-place call writes through (pandas without copy-on-write).
CVR_Decimal(conv, out, inplace) ==
    LET w == IF FGt(out, F(0)) THEN FDiv(conv, out) ELSE F(0)
        r == IF inplace /\ ~IsFinite(w) THEN NaN ELSE w
    IN  IF inplace /\ IsNaN(r) THEN F(0) ELSE r

\* the columns of df after "Cleaning and Conversion" for one row of the file
CleanRow(r, inplace) ==
    LET out  == to_numeric(r.Outbound_Clicks)
        conv == to_numeric(r.Conversions)
    IN  [ad_name          |-> r.ad_name,
         Spend            |-> to_numeric(r.Spend),
         impressions      |-> to_numeric(r.impressions),
         frequency        |-> to_numeric(r.frequency),
         CTR_Raw          |-> r.CTR_Raw,
         Outbound_Clicks  |-> out,
         Conversions      |-> conv,
         CPA              |-> to_numeric(r.CPA),
         ROAS_Purchase    |-> to_numeric(r.ROAS_Purchase),
         ThruPlay_Raw     |-> r.ThruPlay_Raw,
         CTR_Decimal      |-> FDiv(to_numeric(r.CTR_Raw), F(100)),
         ThruPlay_Decimal |-> FDiv(to_numeric(r.ThruPlay_Raw), F(100)),
         CVR_Decimal      |-> CVR_Decimal(conv, out, inplace)]

\* InitialFilter with the spend threshold excluded (> instead of >=)
InitialFilterStrict(row) ==
    /\ FGt(row.Spend, F(MIN_SPEND))
    /\ FGe(row.impressions, F(MIN_IMPRESSIONS))

\* the mask of "Apply Initial Filters (Min Spend/Impressions)"
InitialFilter(row) ==
    /\ FGe(row.Spend, F(MIN_SPEND))
    /\ FGe(row.impressions, F(MIN_IMPRESSIONS))

\* dropna(subset=required_ranking_cols) keeps a row with none of them missing
HasRankingData(row) ==
    /\ ~IsNaN(row.Spend)
    /\ ~IsNaN(row.CPA)
    /\ ~IsNaN(row.ROAS_Purchase)
    /\ ~IsNaN(row.CTR_Decimal)
    /\ ~IsNaN(row.CVR_Decimal)
    /\ row.ad_name # NoName

\* load_data for a file that exists: df_clean
load_data(rows, inplace) ==
    LET cleaned  == [i \in 1..Len(rows) |-> CleanRow(rows[i], inplace)]
        df_clean == SelectSeq(cleaned, InitialFilter)
    IN  SelectSeq(df_clean, HasRankingData)

----------------------------------------------------------------------------
(* creative_pipeline.py: the ranking lenses                                *)

\* the filter every lens applies before ranking
RankingFilter(row) ==
    /\ FGt(row.Spend, F(MIN_SPEND_FOR_RANKING))
    /\ FLt(row.frequency, F(MAX_FREQUENCY))

\* min-max normalisation: (value - min) / (max - min), 0 if max == min
MinMaxNormalize(frame, c) ==
    LET vals == {frame[i][c] : i \in 1..Len(frame)} \ {NaN}
        mx   == SeriesMax(Column(frame, c))
        mn   == IF vals = {} THEN NaN
                ELSE CHOOSE m \in vals : \A v \in vals : FLe(m, v)
    IN  [i \in 1..Len(frame) |->
            IF mx = mn \/ IsNaN(mx) THEN F(0)
            ELSE FDiv(FSub(frame[i][c], mn), FSub(mx, mn))]

\* value / max if max > 0 else 0, as a column aligned with the frame
MaxNormalize(frame, c) ==
    LET mx == SeriesMax(Column(frame, c))
    IN  [i \in 1..Len(frame) |->
            IF FGt(mx, F(0)) THEN FDiv(frame[i][c], mx) ELSE F(0)]

\* CTR * 0.4 + CVR * 0.3 + roas_norm * 0.2 + thruplay_norm * 0.1
WeightedSum(row, rn, tn) ==
    FAdd(FAdd(FAdd(FMul(row.CTR_Decimal, Num(4, 10)),
                   FMul(row.CVR_Decimal, Num(3, 10))),
              FMul(rn, Num(2, 10))),
         FMul(tn, Num(1, 10)))

\* does key a have to come before key b in sort_values?  NaN keys go last
\* whatever the direction.
SortsBefore(a, b, ascending) ==
    IF IsNaN(a) THEN FALSE
    ELSE IF IsNaN(b) THEN TRUE
    ELSE IF ascending THEN FLt(a, b)
    ELSE FGt(a, b)

RECURSIVE InsertSorted(_, _, _, _)
InsertSorted(x, sorted, by, ascending) ==
    IF sorted = <<>> THEN <<x>>
    ELSE IF SortsBefore(x[by], sorted[Len(sorted)][by], ascending)
         THEN Append(InsertSorted(x, SubSeq(sorted, 1, Len(sorted) - 1),
                                  by, ascending),
                     sorted[Len(sorted)])
    ELSE Append(sorted, x)

\* sort_values(by=..., ascending=...): rows with equal keys keep the order
\* they had in the frame
RECURSIVE sort_values(_, _, _)
sort_values(frame, by, ascending) ==
    IF frame = <<>> THEN <<>>
    ELSE InsertSorted(frame[Len(frame)],
                      sort_values(SubSeq(frame, 1, Len(frame) - 1), by, ascending),
                      by, ascending)

head(frame, n) == SubSeq(frame, 1, IF Len(frame) < n THEN Len(frame) ELSE n)

\* rank_composite_score up to the Creative_Score column of df_comp
ScoredFrame(data_frame) ==
    LET comp == SelectSeq(data_frame, RankingFilter)
        rn   == MaxNormalize(comp, "ROAS_Purchase")
        tn   == MaxNormalize(comp, "ThruPlay_Decimal")
    IN  [i \in 1..Len(comp) |->
            comp[i] @@ [Creative_Score |-> WeightedSum(comp[i], rn[i], tn[i])]]

\* the scores df_comp holds for one ad_name, in df_comp's order
ScoresOf(comp, name) ==
    LET hits == SelectSeq(comp, LAMBDA r : r.ad_name = name)
    IN  [i \in 1..Len(hits) |-> hits[i].Creative_Score]

\* data_frame.merge(df_comp[['ad_name', 'Creative_Score']], on='ad_name',
\* how='left'), then Creative_Score.fillna(0, inplace=True) on the column
\* selection
RECURSIVE MergeScores(_, _, _)
MergeScores(data_frame, comp, inplace) ==
    IF data_frame = <<>> THEN <<>>
    ELSE LET row    == Head(data_frame)
             found  == ScoresOf(comp, row.ad_name)
             scores == IF found = <<>> THEN <<NaN>> ELSE found
             filled == [i \in 1..Len(scores) |->
                           IF inplace /\ IsNaN(scores[i]) THEN F(0) ELSE scores[i]]
         IN  [i \in 1..Len(filled) |-> row @@ [Creative_Score |-> filled[i]]]
             \o MergeScores(Tail(data_frame), comp, inplace)

\* rank_composite_score: the three values it returns
rank_composite_score(data_frame, inplace) ==
    LET comp == ScoredFrame(data_frame)
    IN  IF comp = <<>>
        THEN [top |-> <<>>, bottom |-> <<>>,
              scored |-> [has_score |-> FALSE, rows |-> data_frame]]
        ELSE [top    |-> head(sort_values(comp, "Creative_Score", FALSE), HEAD_N),
              bottom |-> head(sort_values(comp, "Creative_Score", TRUE), HEAD_N),
              scored |-> [has_score |-> TRUE,
                          rows |-> MergeScores(data_frame, comp, inplace)]]

----------------------------------------------------------------------------
(* creative_pipeline.py: the main block                                    *)

export_columns ==
    {"ad_name", "Creative_Score", "Spend", "impressions", "frequency",
     "CTR_Decimal", "Outbound_Clicks", "CPA", "ROAS_Purchase", "CVR_Decimal",
     "ThruPlay_Decimal"}

\* drop_duplicates(subset=['ad_name']): the first row of each name is kept
drop_duplicates(frame) ==
    LET keep == {i \in 1..Len(frame) :
                    \A j \in 1..(i - 1) : frame[j].ad_name # frame[i].ad_name}
        RECURSIVE Pick(_)
        Pick(i) == IF i > Len(frame) THEN <<>>
                   ELSE IF i \in keep THEN <<frame[i]>> \o Pick(i + 1)
                   ELSE Pick(i + 1)
    IN  Pick(1)

\* 4a: the frame written to ai_correlation_data.csv.  pd.DataFrame() has no
\* columns, so final_export_cols is empty when both rankings are empty.
ai_data_to_export(top, bottom) ==
    LET both == drop_duplicates(top \o bottom)
        cols == IF both = <<>> THEN {} ELSE export_columns
    IN  [cols |-> cols,
         rows |-> [i \in 1..Len(both) |-> [c \in cols |-> both[i][c]]]]

\* 4b: df_dash with the columns formatted for the report
DashRow(row, max_score) ==
    [ad_name        |-> row.ad_name,
     Creative_Score |-> row.Creative_Score,
     Score_0_100    |-> FMul(FDiv(row.Creative_Score, max_score), F(100)),
     CPA_Dollar     |-> Round2(row.CPA),
     ROAS           |-> Round2(row.ROAS_Purchase),
     CTR_Percent    |-> Round2(FMul(row.CTR_Decimal, F(100))),
     CVR_Percent    |-> Round2(FMul(row.CVR_Decimal, F(100)))]

\* "Clean Data for Charts": dropna on the four formatted columns, then
\* CPA ($) > 0 and ROAS > 0
ChartFilter(d) ==
    /\ ~IsNaN(d.CPA_Dollar)
    /\ ~IsNaN(d.ROAS)
    /\ ~IsNaN(d.CTR_Percent)
    /\ ~IsNaN(d.CVR_Percent)
    /\ FGt(d.CPA_Dollar, F(0))
    /\ FGt(d.ROAS, F(0))

df_dash(scored_rows) ==
    LET max_score == SeriesMax(Column(scored_rows, "Creative_Score"))
        formatted == [i \in 1..Len(scored_rows) |->
                         DashRow(scored_rows[i], max_score)]
    IN  SelectSeq(formatted, ChartFilter)

NoFile == [present |-> FALSE, origin |-> "none", cols |-> {}, rows |-> <<>>]

\* df = load_data(): a missing file is reported and None returned; an empty
\* frame makes main skip its whole body
Load ==
    /\ pc = "start"
    /\ IF ~rawFile.present
       THEN /\ pc' = "load_error"
            /\ df' = <<>>
       ELSE /\ df' = load_data(rawFile.rows, chainedInplace)
            /\ pc' = IF df' = <<>> THEN "no_data" ELSE "loaded"
    /\ UNCHANGED <<rawFile, chainedInplace, df_comp, roas_norm,
                   thruplay_norm, top_20, bottom_20, df_with_scores, aiCsv,
                   dashboard>>
    /\ UNCHANGED corrVars

\* rank_acquisition_lens(df) and rank_efficiency_lens(df) only print; then
\* composite_top, composite_bottom, df_with_scores = rank_composite_score(df)
Rank ==
    /\ pc = "loaded"
    /\ LET res  == rank_composite_score(df, chainedInplace)
           comp == ScoredFrame(df)
       IN  /\ df_comp' = comp
           /\ roas_norm' = MaxNormalize(comp, "ROAS_Purchase")
           /\ thruplay_norm' = MaxNormalize(comp, "ThruPlay_Decimal")
           /\ top_20' = res.top
           /\ bottom_20' = res.bottom
           /\ df_with_scores' = res.scored
    /\ pc' = "ranked"
    /\ UNCHANGED <<rawFile, chainedInplace, df, aiCsv, dashboard>>
    /\ UNCHANGED corrVars

\* 4a: to_csv('ai_correlation_data.csv')
Export ==
    /\ pc = "ranked"
    /\ LET out == ai_data_to_export(top_20, bottom_20)
       IN  aiCsv' = [present |-> TRUE, origin |-> "pipeline",
                     cols |-> out.cols, rows |-> out.rows]
    /\ pc' = "exported"
    /\ UNCHANGED <<rawFile, chainedInplace, df, df_comp,
                   roas_norm, thruplay_norm, top_20, bottom_20,
                   df_with_scores, dashboard>>
    /\ UNCHANGED corrVars

\* 4b-4d: df_dash['Creative_Score'] raises KeyError when the column does not
\* exist, and nothing catches it; otherwise dashboard.html is written
Dashboard ==
    /\ pc = "exported"
    /\ IF ~df_with_scores.has_score
       THEN /\ pc' = "crashed"
            /\ UNCHANGED dashboard
       ELSE /\ dashboard' = [present |-> TRUE,
                             rows |-> df_dash(df_with_scores.rows)]
            /\ pc' = "done"
    /\ UNCHANGED <<rawFile, chainedInplace, df, df_comp,
                   roas_norm, thruplay_norm, top_20, bottom_20,
                   df_with_scores, aiCsv>>
    /\ UNCHANGED corrVars

----------------------------------------------------------------------------
(* ai_analysis.py: mock_vision_ai_analysis                                 *)

FORMATS  == <<"UGC-Style Video", "Studio Shoot", "Static Image", "Carousel">>
SETTINGS == <<"Indoor Fashion Shot", "Outdoor Lifestyle", "Product Demo",
              "Text Overlay Only">>
COLORS   == <<"Black/White", "Vibrant Pink/Red", "Muted Earth Tones",
              "Cool Blue/Green">>
HOOKS    == [high |-> <<"Strong Text Hook (5+ words)", "Fast-paced editing",
                        "Direct-to-camera speaking">>,
             low  |-> <<"Slow Intro/Weak Hook", "Busy Background",
                        "No clear CTA">>,
             mid  |-> <<"Standard Product Showcase", "Medium-paced edit">>]
EMOTIONS == [high |-> <<"Excitement/Urgency", "Calm/Luxurious">>,
             low  |-> <<"Confused/Aesthetic Only", "Boring/Neutral">>,
             mid  |-> <<"Informative", "Pleasant">>]

HIGH_SCORE == 80
LOW_SCORE  == 30

\* if score >= 80 ... elif score <= 30 ... else
Band(score) ==
    IF FGe(score, F(HIGH_SCORE)) THEN "high"
    ELSE IF FLe(score, F(LOW_SCORE)) THEN "low"
    ELSE "mid"

\* random.choice(options).  A row's draw is "first" or "last": the first or
\* the last option of each list the row chooses from.
Picks == {"first", "last"}
random_choice(options, pick) ==
    IF pick = "first" THEN options[1] ELSE options[Len(options)]

mock_vision_ai_analysis(score, pick) ==
    [format         |-> random_choice(FORMATS, pick),
     setting        |-> random_choice(SETTINGS, pick),
     dominant_color |-> random_choice(COLORS, pick),
     hook           |-> random_choice(HOOKS[Band(score)], pick),
     emotion        |-> random_choice(EMOTIONS[Band(score)], pick)]

----------------------------------------------------------------------------
(* ai_analysis.py: the main block                                          *)

tag_columns == <<"format", "setting", "dominant_color", "hook", "emotion">>

MIN_TAG_COUNT  == 3
SIGNIFICANT    == 10

\* the values of each tag column in the order groupby lists them (sorted)
GroupKeys ==
    [format         |-> <<"Carousel", "Static Image", "Studio Shoot",
                          "UGC-Style Video">>,
     setting        |-> <<"Indoor Fashion Shot", "Outdoor Lifestyle",
                          "Product Demo", "Text Overlay Only">>,
     dominant_color |-> <<"Black/White", "Cool Blue/Green",
                          "Muted Earth Tones", "Vibrant Pink/Red">>,
     hook           |-> <<"Busy Background", "Direct-to-camera speaking",
                          "Fast-paced editing", "Medium-paced edit",
                          "No clear CTA", "Slow Intro/Weak Hook",
                          "Standard Product Showcase",
                          "Strong Text Hook (5+ words)">>,
     emotion        |-> <<"Boring/Neutral", "Calm/Luxurious",
                          "Confused/Aesthetic Only", "Excitement/Urgency",
                          "Informative", "Pleasant">>]

RECURSIVE SeriesSum(_)
SeriesSum(s) == IF s = <<>> THEN F(0) ELSE FAdd(Head(s), SeriesSum(Tail(s)))

\* agg(['mean', 'count']) of one group: NaN scores are skipped by both
GroupStats(frame, col, tag) ==
    LET rows   == SelectSeq(frame, LAMBDA r : r[col] = tag)
        scores == SelectSeq(Column(rows, "Creative_Score"),
                            LAMBDA x : ~IsNaN(x))
    IN  [tag   |-> tag,
         size  |-> Len(rows),
         count |-> Len(scores),
         mean  |-> FDiv(SeriesSum(scores), F(Len(scores)))]

\* groupby(col)['Creative_Score'].agg(['mean', 'count'])
\*     .sort_values(by='mean', ascending=False)
GroupSummary(frame, col) ==
    LET keys    == GroupKeys[col]
        all     == [i \in 1..Len(keys) |-> GroupStats(frame, col, keys[i])]
        present == SelectSeq(all, LAMBDA g : g.size > 0)
    IN  sort_values(present, "mean", FALSE)

\* a sample guard that lets groups of one record fewer through
ReliableOffByOne(g) == g.count >= MIN_TAG_COUNT - 1

\* tag_summary[tag_summary['count'] >= 3]
Reliable(g) == g.count >= MIN_TAG_COUNT

\* thresholds that include the boundary
SignificanceInclusive(score_diff) ==
    IF FGe(score_diff, F(SIGNIFICANT)) THEN "WINNING"
    ELSE IF FLe(score_diff, F(-SIGNIFICANT)) THEN "LOSING"
    ELSE "NONE"

\* if score_diff > 10: ... elif score_diff < -10: ...
Significance(score_diff) ==
    IF FGt(score_diff, F(SIGNIFICANT)) THEN "WINNING"
    ELSE IF FLt(score_diff, F(-SIGNIFICANT)) THEN "LOSING"
    ELSE "NONE"

\* the body of "for col in tag_columns": the hypotheses it appends
Hypothesis(frame, col) ==
    LET tag_summary == SelectSeq(GroupSummary(frame, col), Reliable)
    IN  IF Len(tag_summary) > 1
        THEN LET best_tag   == tag_summary[1]
                 worst_tag  == tag_summary[Len(tag_summary)]
                 score_diff == FMul(FDiv(FSub(best_tag.mean, worst_tag.mean),
                                         worst_tag.mean), F(100))
                 kind       == Significance(score_diff)
             IN  IF kind = "NONE" THEN <<>>
                 ELSE <<[col |-> col, kind |-> kind,
                         tag |-> IF kind = "WINNING" THEN best_tag.tag
                                 ELSE worst_tag.tag,
                         best |-> best_tag.mean, worst |-> worst_tag.mean,
                         score_diff |-> score_diff]>>
        ELSE <<>>

RECURSIVE AllHypotheses(_, _)
AllHypotheses(frame, cols) ==
    IF cols = <<>> THEN <<>>
    ELSE Hypothesis(frame, Head(cols)) \o AllHypotheses(frame, Tail(cols))

\* the states in which creative_pipeline.py has ended
PipelineEnded == pc \in {"load_error", "no_data", "done", "crashed"}

\* The whole try block, run once the pipeline has ended.
\*   47     read_csv: a missing file is FileNotFoundError, a file without
\*          columns raises EmptyDataError into "except Exception";
\*   55-66  the loop reads row['ad_name'], row['creative_link'] and
\*          row['Creative_Score']: KeyError when the file lacks one of them;
\*   72-84  pd.DataFrame([]) has no columns, so groupby('format') raises
\*          when no row was tagged;
\*   82-127 the correlation loop, then to_csv.
AiAnalysis ==
    /\ pcA = "start"
    /\ PipelineEnded
    /\ IF ~aiCsv.present
       THEN /\ pcA' = "not_found"
            /\ UNCHANGED <<df_final, hypotheses, finalReport>>
       ELSE IF \/ aiCsv.cols = {}
               \/ aiCsv.rows = <<>>
               \/ ~({"ad_name", "creative_link", "Creative_Score"}
                       \subseteq aiCsv.cols)
       THEN /\ pcA' = "error"
            /\ UNCHANGED <<df_final, hypotheses, finalReport>>
       ELSE /\ \E pick \in [1..Len(aiCsv.rows) -> Picks] :
                 df_final' =
                   [i \in 1..Len(aiCsv.rows) |->
                      aiCsv.rows[i] @@
                      mock_vision_ai_analysis(aiCsv.rows[i].Creative_Score,
                                              pick[i])]
            /\ hypotheses' = AllHypotheses(df_final', tag_columns)
            /\ finalReport' = TRUE
            /\ pcA' = "done"
    /\ UNCHANGED <<rawFile, chainedInplace, aiCsv>>
    /\ UNCHANGED pipeVars

----------------------------------------------------------------------------
(* The inputs                                                              *)

MaxCopies   == 21   \* longest run of identical rows in raw_creative_data.csv
MaxSupplied == 7    \* most rows of a supplied ai_correlation_data.csv

RawRow(name, spend, impr, freq, ctr, out, conv, cpa, roas, thru) ==
    [ad_name |-> name, Spend |-> spend, impressions |-> impr,
     frequency |-> freq, CTR_Raw |-> ctr, Outbound_Clicks |-> out,
     Conversions |-> conv, CPA |-> cpa, ROAS_Purchase |-> roas,
     ThruPlay_Raw |-> thru]

\* one row, varied in what load_data reads: below, at and above the
\* thresholds, zero, blank
LoadRows ==
    {RawRow(name, spend, impr, freq, ctr, out, conv, cpa, roas, 50) :
        name \in {"a", NoName}, spend \in {40, 50, 100},
        impr \in {500, 2000}, freq \in {1, 5}, ctr \in {Blank, 0, 50},
        out \in {Blank, 0, 100}, conv \in {Blank, 0, 10},
        cpa \in {Blank, 10}, roas \in {Blank, 2}}

\* rows that load_data keeps, varied in what the ranking reads
RankRows ==
    {RawRow(name, spend, 2000, 1, 0, 100, conv, 10, roas, thru) :
        name \in {"a", "b"}, spend \in {50, 100}, conv \in {0, 10},
        roas \in {0, 2}, thru \in {Blank, 25, 50}}

\* rows that pass every filter, for the long files
BulkRows ==
    {RawRow(name, 100, 2000, 1, ctr, 100, 10, 10, 2, thru) :
        name \in {"a", "b"}, ctr \in {0, 50}, thru \in {Blank, 50}}

Repeat(r, n) == [i \in 1..n |-> r]

\* a run of MaxCopies identical rows followed by another row
BulkFiles ==
    {Repeat(r1, MaxCopies) \o <<r2>> : r1 \in BulkRows, r2 \in BulkRows}

RawFiles ==
    {<<r>> : r \in LoadRows \cup RankRows}
        \cup {<<r1, r2>> : r1 \in RankRows, r2 \in RankRows}
        \cup BulkFiles

SuppliedScores == {Blank, -100, 0, 100, 120}

\* a csv someone else put in place of the pipeline's: it has the columns
\* ai_analysis.py reads; its rows are listed by ascending score cell
SuppliedFiles ==
    UNION {{s \in [1..n -> SuppliedScores] :
               \A i \in 1..(n - 1) : s[i] <= s[i + 1]} : n \in 0..MaxSupplied}

SuppliedCsv(s) ==
    [present |-> TRUE, origin |-> "supplied",
     cols |-> {"ad_name", "creative_link", "Creative_Score"},
     rows |-> [i \in 1..Len(s) |->
                  [ad_name |-> "a", creative_link |-> "http://x",
                   Creative_Score |-> to_numeric(s[i])]]]

Init ==
    /\ \/ /\ rawFile \in {[present |-> TRUE, rows |-> f] : f \in RawFiles}
          /\ chainedInplace \in BOOLEAN
          /\ aiCsv = NoFile
       \/ /\ rawFile = [present |-> FALSE, rows |-> <<>>]
          /\ chainedInplace = TRUE
          /\ aiCsv \in {NoFile} \cup {SuppliedCsv(s) : s \in SuppliedFiles}
    /\ pc = "start"
    /\ df = <<>>
    /\ df_comp = <<>>
    /\ roas_norm = <<>>
    /\ thruplay_norm = <<>>
    /\ top_20 = <<>>
    /\ bottom_20 = <<>>
    /\ df_with_scores = [has_score |-> FALSE, rows |-> <<>>]
    /\ dashboard = [present |-> FALSE, rows |-> <<>>]
    /\ pcA = "start"
    /\ df_final = <<>>
    /\ hypotheses = <<>>
    /\ finalReport = FALSE

Next == Load \/ Rank \/ Export \/ Dashboard \/ AiAnalysis

Spec == Init /\ [][Next]_vars

----------------------------------------------------------------------------
(* Properties                                                              *)

Loaded == rawFile.present /\ pc # "start"
Ranked == pc \in {"ranked", "exported", "done", "crashed"}

Filled(c) == c # Blank

\* is the record read from row i of the file among the rows of df?
Kept(i) ==
    \E k \in 1..Len(df) : df[k] = CleanRow(rawFile.rows[i], chainedInplace)

CellsPresent(r) ==
    /\ r.ad_name # NoName
    /\ Filled(r.CPA)
    /\ Filled(r.ROAS_Purchase)
    /\ Filled(r.CTR_Raw)
    /\ \/ chainedInplace
       \/ Filled(r.Conversions)
       \/ ~(Filled(r.Outbound_Clicks) /\ r.Outbound_Clicks > 0)

MeetsThresholds(r) ==
    /\ Filled(r.Spend) /\ r.Spend >= MIN_SPEND
    /\ Filled(r.impressions) /\ r.impressions >= MIN_IMPRESSIONS

In0To100(x) == FLe(F(0), x) /\ FLe(x, F(100))

\* C2 as claimed: for a non-empty scored batch, the Creative_Score written
\* to ai_correlation_data.csv lies in [0, 100] for every record and is
\* exactly 100 for the record with the largest weighted sum, and so does the
\* score shown in the report.
C2_ScoresAre0To100 ==
    /\ (aiCsv.origin = "pipeline" /\ df_comp # <<>>) =>
           /\ \A k \in 1..Len(aiCsv.rows) :
                  In0To100(aiCsv.rows[k].Creative_Score)
           /\ \E k \in 1..Len(aiCsv.rows) :
                  aiCsv.rows[k].Creative_Score = F(100)
    /\ (dashboard.present /\ df_comp # <<>>) =>
           \A k \in 1..Len(dashboard.rows) :
               In0To100(dashboard.rows[k].Score_0_100)

SameEverywhere(col) == \A i, j \in 1..Len(col) : col[i] = col[j]

\* the column's normalised values as the claim has them: 0 for a constant
\* column, otherwise between 0 and 1 with the smallest value at 0
IsMinMaxOf(norm, col) ==
    IF SameEverywhere(col) THEN \A i \in 1..Len(col) : norm[i] = F(0)
    ELSE \A i \in 1..Len(col) :
            /\ FLe(F(0), norm[i]) /\ FLe(norm[i], F(1))
            /\ (\A j \in 1..Len(col) : FLe(col[i], col[j])) => norm[i] = F(0)

IsMaxNormalized(norm, col) ==
    /\ Len(norm) = Len(col)
    /\ IF \E j \in 1..Len(col) : FGt(col[j], F(0))
       THEN \A i \in 1..Len(col) :
               /\ IsNaN(norm[i]) <=> IsNaN(col[i])
               /\ ~IsNaN(col[i]) =>
                      /\ FLe(F(0), norm[i]) /\ FLe(norm[i], F(1))
                      /\ (\A j \in 1..Len(col) :
                              IsNaN(col[j]) \/ FLe(col[j], col[i]))
                             <=> norm[i] = F(1)
                      /\ \A j \in 1..Len(col) :
                             ~IsNaN(col[j]) =>
                                 FMul(norm[i], col[j]) = FMul(norm[j], col[i])
       ELSE \A i \in 1..Len(col) : norm[i] = F(0)

NonNegative(x) == FLe(F(0), x)

\* C4 as claimed: every record that reaches the scorer has finite,
\* non-negative derived ratios (CVR, CTR decimal, ThruPlay decimal), a ratio
\* is exactly 0 when its denominator or input cell is zero or missing, and
\* no missing value enters the composite score.
C4_RatiosDefined ==
    Ranked =>
        \A k \in 1..Len(df_comp) :
            LET row == df_comp[k]
            IN  /\ IsFinite(row.CVR_Decimal) /\ NonNegative(row.CVR_Decimal)
                /\ IsFinite(row.CTR_Decimal) /\ NonNegative(row.CTR_Decimal)
                /\ IsFinite(row.ThruPlay_Decimal)
                /\ NonNegative(row.ThruPlay_Decimal)
                /\ (IsNaN(row.Outbound_Clicks) \/ row.Outbound_Clicks = F(0))
                       => row.CVR_Decimal = F(0)
                /\ IsFinite(row.Creative_Score)

\* C5 as claimed: a run of either stage ends having written all of its
\* artifacts, or having said why it wrote none of them; never after an
\* exception nobody caught, never with a part of its artifacts.
C5_AllOrNothing ==
    /\ PipelineEnded =>
           \/ /\ pc = "done"
              /\ aiCsv.present /\ aiCsv.origin = "pipeline"
              /\ dashboard.present
           \/ /\ pc \in {"load_error", "no_data"}
              /\ aiCsv.origin # "pipeline"
              /\ ~dashboard.present
    /\ pcA # "start" =>
           \/ pcA = "done" /\ finalReport
           \/ pcA \in {"not_found", "error"} /\ ~finalReport

\* C6 as claimed: after a completed pipeline run on a non-empty record set,
\* the tag correlator, reading the artifact that run wrote, reaches the
\* correlation step and writes final_ai_creative_report.csv.
C6_HandOff ==
    (pc = "done" /\ aiCsv.origin = "pipeline" /\ pcA # "start") =>
        (pcA = "done" /\ finalReport)

Dimensions == {tag_columns[i] : i \in 1..Len(tag_columns)}

\* the records of df_final that carry tag t in dimension col
RecordsWith(col, t) == {i \in 1..Len(df_final) : df_final[i][col] = t}

ScoredWith(col, t) ==
    {i \in RecordsWith(col, t) : ~IsNaN(df_final[i].Creative_Score)}

TagsIn(col) == {df_final[i][col] : i \in 1..Len(df_final)}

\* the groups of a dimension that the comparison may use
Qualifying(col) ==
    {t \in TagsIn(col) : Cardinality(ScoredWith(col, t)) >= MIN_TAG_COUNT}

MeanOf(col, t) == GroupStats(df_final, col, t).mean

HypothesesFor(col) == {k \in 1..Len(hypotheses) : hypotheses[k].col = col}

\* C7: for every tag dimension, a group with fewer than 3 records takes no
\* part in the comparison (the tag a hypothesis names has at least 3
\* records, and its best and worst means are the largest and the smallest
\* mean among the groups with at least 3 scored records), and a dimension
\* with fewer than 2 such groups contributes no hypothesis.
C7_SampleGuard ==
    pcA = "done" =>
        \A col \in Dimensions :
            /\ Cardinality(Qualifying(col)) < 2 => HypothesesFor(col) = {}
            /\ \A k \in HypothesesFor(col) :
                   LET h == hypotheses[k]
                   IN  /\ Cardinality(RecordsWith(col, h.tag)) >= MIN_TAG_COUNT
                       /\ \E b, w \in Qualifying(col) :
                              /\ h.best = MeanOf(col, b)
                              /\ h.worst = MeanOf(col, w)
                       /\ \A t \in Qualifying(col) :
                              /\ FLe(MeanOf(col, t), h.best)
                              /\ FLe(h.worst, MeanOf(col, t))

\* C7 witness: the hook dimension has two groups of three records, compared
\* in a hypothesis, and a group of one record that is left out; the format
\* dimension has one group of six and one of one, and no hypothesis.
C7_Witness ==
    /\ pcA = "done"
    /\ Len(df_final) = 7
    /\ HypothesesFor("hook") # {}
    /\ Cardinality(Qualifying("hook")) = 2
    /\ \E t \in TagsIn("hook") : Cardinality(RecordsWith("hook", t)) = 1
    /\ Cardinality(TagsIn("format")) = 2
    /\ Cardinality(Qualifying("format")) = 1
    /\ HypothesesFor("format") = {}

BestMean(col) ==
    LET means == {MeanOf(col, t) : t \in Qualifying(col)}
    IN  CHOOSE m \in means : \A v \in means : FLe(v, m)

WorstMean(col) ==
    LET means == {MeanOf(col, t) : t \in Qualifying(col)}
    IN  CHOOSE m \in means : \A v \in means : FLe(m, v)

\* d = (best_mean - worst_mean) / worst_mean, as the division yields it
RelativeDiff(col) ==
    FDiv(FSub(BestMean(col), WorstMean(col)), WorstMean(col))

\* C8: at most one hypothesis is emitted per tag dimension; for a dimension
\* with at least two qualifying groups, exactly one hypothesis, a winning
\* one, is emitted if d > 10%, exactly one, a losing one, if d < -10%, and
\* none otherwise, where d = (best_mean - worst_mean) / worst_mean.
C8_Thresholds ==
    pcA = "done" =>
        \A col \in Dimensions :
            /\ Cardinality(HypothesesFor(col)) <= 1
            /\ Cardinality(Qualifying(col)) >= 2 =>
                   LET d == RelativeDiff(col)
                   IN  /\ FGt(d, Num(1, 10)) =>
                              \E k \in HypothesesFor(col) :
                                  hypotheses[k].kind = "WINNING"
                       /\ FLt(d, Num(-1, 10)) =>
                              \E k \in HypothesesFor(col) :
                                  hypotheses[k].kind = "LOSING"
                       /\ (~FGt(d, Num(1, 10)) /\ ~FLt(d, Num(-1, 10))) =>
                              HypothesesFor(col) = {}

\* C8 witness: a dimension with two qualifying groups whose means are 120
\* and 100, so that d = 20%, and the one winning hypothesis emitted for it.
C8_Witness ==
    /\ pcA = "done"
    /\ \E col \in Dimensions :
           /\ Cardinality(Qualifying(col)) = 2
           /\ BestMean(col) = F(120)
           /\ WorstMean(col) = F(100)
           /\ RelativeDiff(col) = Num(2, 10)
           /\ Cardinality(HypothesesFor(col)) = 1
           /\ \A k \in HypothesesFor(col) : hypotheses[k].kind = "WINNING"

Score(row) == row.Creative_Score

\* how many rows of a frame are the record r
Occurrences(frame, r) == Cardinality({i \in 1..Len(frame) : frame[i] = r})

\* C9 as claimed: top_20 contains only records that pass the ranking
\* filter, has at most 20 records, is sorted by composite score in
\* non-increasing order, and no scored record left out of it has a strictly
\* higher score than a record in it; bottom_20 is the mirror image.
C9_RankedOrder ==
    Ranked =>
        /\ Len(top_20) <= HEAD_N
        /\ Len(bottom_20) <= HEAD_N
        /\ \A i \in 1..Len(top_20) : RankingFilter(top_20[i])
        /\ \A i \in 1..Len(bottom_20) : RankingFilter(bottom_20[i])
        /\ \A i \in 1..(Len(top_20) - 1) :
               FGe(Score(top_20[i]), Score(top_20[i + 1]))
        /\ \A i \in 1..(Len(bottom_20) - 1) :
               FLe(Score(bottom_20[i]), Score(bottom_20[i + 1]))
        /\ \A k \in 1..Len(df_comp) :
               /\ Occurrences(top_20, df_comp[k])
                      < Occurrences(df_comp, df_comp[k])
                  => \A j \in 1..Len(top_20) :
                         FLe(Score(df_comp[k]), Score(top_20[j]))
               /\ Occurrences(bottom_20, df_comp[k])
                      < Occurrences(df_comp, df_comp[k])
                  => \A j \in 1..Len(bottom_20) :
                         FGe(Score(df_comp[k]), Score(bottom_20[j]))

\* C10 as claimed: when the maximum composite score of the batch is 0, the
\* rescaling to 0-100 gives every record of the report a defined numeric
\* score and the run does not crash.
C10_RescaleGuarded ==
    (/\ pc \in {"done", "crashed"}
     /\ df_with_scores.has_score
     /\ SeriesMax(Column(df_with_scores.rows, "Creative_Score")) = F(0)) =>
        /\ pc = "done"
        /\ \A k \in 1..Len(dashboard.rows) :
               IsFinite(dashboard.rows[k].Score_0_100)

\* a row of the merged frame without its score column
WithoutScore(row) == [c \in DOMAIN row \ {"Creative_Score"} |-> row[c]]

\* the row of df_comp that was made from row i of df (which passes the
\* ranking filter)
ScoredRowOf(i) ==
    df_comp[Cardinality({j \in 1..i : RankingFilter(df[j])})]

\* C11 as claimed: when some record passes the ranking filter, the third
\* value returned by rank_composite_score has exactly one row per input
\* record, records that share an ad_name included; a record that passes the
\* ranking filter carries its own composite score and a record that fails
\* it carries score 0.
C11_MergePreservesRecords ==
    (Ranked /\ df_comp # <<>>) =>
        /\ df_with_scores.has_score
        /\ Len(df_with_scores.rows) = Len(df)
        /\ \A i \in 1..Len(df) :
               LET row == df_with_scores.rows[i]
               IN  /\ WithoutScore(row) = df[i]
                   /\ Score(row) = IF RankingFilter(df[i])
                                   THEN Score(ScoredRowOf(i))
                                   ELSE F(0)

AllScoresNonNegative ==
    \A i \in 1..Len(df_final) : NonNegative(Score(df_final[i]))

\* C12 as claimed: in a dimension with at least two qualifying groups, when
\* all composite scores are non-negative the best group mean is >= the
\* worst and no losing hypothesis is emitted; and the worst group mean the
\* relative difference is divided by is never 0, so every reported
\* difference is a finite number.
C12_RelativeDiffSafe ==
    pcA = "done" =>
        \A col \in Dimensions :
            Cardinality(Qualifying(col)) >= 2 =>
                /\ AllScoresNonNegative =>
                       /\ FLe(WorstMean(col), BestMean(col))
                       /\ \A k \in HypothesesFor(col) :
                              hypotheses[k].kind # "LOSING"
                /\ WorstMean(col) # F(0)
                /\ \A k \in HypothesesFor(col) :
                       IsFinite(hypotheses[k].score_diff)

============================================================================
